---- MODULE Spec2Model ----
(***************************************************************************)
(* A model of modrover's Rover (src/src/modrover/rover.py): the learner    *)
(* registry, the layered exploration loop, the projection of a learner's   *)
(* coefficients on the global covariate order, and the creation of the     *)
(* super learner.                                                          *)
(*                                                                         *)
(* Python values are modelled as follows.                                  *)
(*   - A tuple or list is a sequence; the INDICES stored in a learner id   *)
(*     are Python's (0-based), the positions of a sequence are TLA+'s      *)
(*     (1-based): Python's xs[i] is xs[i + 1] here.                        *)
(*   - An Optional value is a set with at most one element: {} is None,    *)
(*     {v} is the value v.                                                 *)
(*   - A dict is the sequence of its <<key, value>> items in insertion     *)
(*     order (Python dicts iterate in insertion order).                    *)
(*   - Learner objects live in `heap`, a function from references to       *)
(*     objects, so that "the same instance" is equality of references. An  *)
(*     object nothing refers to any more is freed when fit ends.           *)
(*   - Learner (learner.py), the strategies (strategies/) and              *)
(*     metrics_to_weights (synthesizer.py) are not part of rover.py; they  *)
(*     are modelled by their contract.                                     *)
(***************************************************************************)
EXTENDS Integers, Sequences, FiniteSets, TLC

\* ------------------------------------------------------------------------
\* Bounds of the model
\* ------------------------------------------------------------------------

\* a strategy returns at most this many learner ids in one layer
MaxLayerSize == 2

\* a strategy returns the empty layer at the latest after this many layers
MaxLayers == 2

\* at most this many calls of Rover.fit on one Rover
MaxFitCalls == 2

\* the values of col_explore that are tried
ExploreChoices == { <<>>, <<"x1">>, <<"x1", "x2">> }

\* the values of col_fixed that are tried: a dict param -> list of columns
FixedChoices == { <<>>, << <<"mu", <<"f1">> >> >> }

\* the values of explore_param that are tried
ExploreParams == {"mu"}

\* what a Learner.fit may report: the cross-validated performance, and the
\* coefficients base+1, base+2, ... of the variables
FitOutcomes == { <<0, 0>>, <<1, 10>> }

\* the (max_num_models, ratio_cutoff) pairs tried; ratio_cutoff in percent
EnsembleArgs == { <<1, 100>>, <<2, 50>>, <<0, 100>>, <<2, 150>> }

VARIABLES
    col_fixed,      \* self.col_fixed
    col_explore,    \* self.col_explore
    explore_param,  \* self.explore_param
    heap,           \* the live Learner objects: reference -> object
    learners,       \* self.learners: dict LearnerID -> reference
    super_learner,  \* self.super_learner: Optional reference
    pc,             \* where the running call of fit stands; "idle" if none
    strategy,       \* the strategy of the running fit
    curr_ids,       \* _explore's curr_ids
    curr_learners,  \* _explore's curr_learners, what _fit_layer has left
    layerNo,        \* number of the layer being processed in this fit
    fits,           \* the Learner.fit calls of the running fit, in order
    ensemble,       \* locals of _generate_ensemble_coefficients in this fit
    err,            \* exception raised by the last finished call, or "none"
    lastOp,         \* the last call that finished
    fitCalls,       \* number of fit calls started
    fitCompleted,   \* some fit call has returned without raising
    row_call,       \* the last direct call of _learner_coefs_to_global_coefs
    learner_call    \* the last direct call of get_learner

vars == <<col_fixed, col_explore, explore_param, heap, learners,
          super_learner, pc, strategy, curr_ids, curr_learners, layerNo,
          fits, ensemble, err, lastOp, fitCalls, fitCompleted,
          row_call, learner_call>>

\* ------------------------------------------------------------------------
\* Python helpers
\* ------------------------------------------------------------------------

\* the IndexError of a list index past the end of the list
ListIndexError == "IndexError: list index out of range"

\* the IndexError of numpy for an index array that is not of integers
ArrayIndexError == "IndexError: arrays used as indices must be of integer type"

\* the IndexError of numpy for an index past the end of the axis
BoundsIndexError == "IndexError: index is out of bounds for axis 0"

None == {}

Some(v) == {v}

TheValue(opt) == CHOOSE v \in opt : TRUE

\* bool(x) of an Optional number: None and 0 are falsy
Truthy(opt) == opt # None /\ TheValue(opt) # 0

Range(s) == { s[i] : i \in DOMAIN s }

RECURSIVE Concat(_)
Concat(ss) == IF ss = <<>> THEN <<>> ELSE Head(ss) \o Concat(Tail(ss))

RECURSIVE SumSeq(_)
SumSeq(s) == IF s = <<>> THEN 0 ELSE Head(s) + SumSeq(Tail(s))

\* all sequences of distinct elements of S
RECURSIVE Arrangements(_)
Arrangements(S) ==
    IF S = {} THEN { <<>> }
    ELSE { <<>> } \cup
         UNION { { <<x>> \o t : t \in Arrangements(S \ {x}) } : x \in S }

\* the orders in which a set may be iterated
Orders(S) == { s \in Arrangements(S) : Len(s) = Cardinality(S) }

\* dict operations
HasKey(d, k) == \E i \in DOMAIN d : d[i][1] = k

Get(d, k) == d[CHOOSE i \in DOMAIN d : d[i][1] = k][2]

Keys(d) == [ i \in DOMAIN d |-> d[i][1] ]

DictSet(d, k, v) ==
    IF HasKey(d, k)
    THEN [ i \in DOMAIN d |-> IF d[i][1] = k THEN <<k, v>> ELSE d[i] ]
    ELSE Append(d, <<k, v>>)

\* ------------------------------------------------------------------------
\* The covariate space
\* ------------------------------------------------------------------------

\* Rover.all_covariates: the fixed columns of every parameter, in the
\* order of col_fixed, followed by the explore columns
all_covariates ==
    Concat([ i \in DOMAIN col_fixed |-> col_fixed[i][2] ]) \o col_explore

\* Rover.num_covariates
num_covariates == Len(all_covariates)

\* Rover.default_param_specs: param -> its fixed variables (self.param_specs
\* is the empty dict of the constructor's default)
default_param_specs == col_fixed

\* ------------------------------------------------------------------------
\* Learner (learner.py), by its contract
\* ------------------------------------------------------------------------

\* Learner(...): a new learner has not been fit and has no results
NewLearner(param_specs) ==
    [ param_specs |-> param_specs,
      has_been_fit |-> FALSE,
      performance |-> None,
      opt_coefs |-> None ]

\* the variables of a learner in the order they are given to the model
Variables(learner) ==
    Concat([ i \in DOMAIN learner.param_specs |-> learner.param_specs[i][2] ])

\* Learner.fit returning: the learner is marked fit and holds a performance
\* and one coefficient per variable
LearnerFit(learner, perf, base) ==
    [ learner EXCEPT
        !.has_been_fit = TRUE,
        !.performance = Some(perf),
        !.opt_coefs = Some([ k \in 1..Len(Variables(learner)) |-> base + k ]) ]

\* ------------------------------------------------------------------------
\* Rover.get_learner
\* ------------------------------------------------------------------------

\* the param_specs get_learner builds: the explore columns of learner_id are
\* put after the fixed variables of explore_param (a parameter without
\* fixed columns gets a new entry, as the defaultdict makes one)
LearnerParamSpecs(learner_id) ==
    LET explore_columns ==
            [ r \in DOMAIN learner_id |-> col_explore[learner_id[r] + 1] ]
        specs == default_param_specs
    IN  IF HasKey(specs, explore_param)
        THEN DictSet(specs, explore_param,
                     Get(specs, explore_param) \o explore_columns)
        ELSE Append(specs, <<explore_param, explore_columns>>)

\* a reference no live object has
NewRef(h) ==
    CHOOSE r \in 1..(Cardinality(DOMAIN h) + 1) :
        /\ r \notin DOMAIN h
        /\ \A q \in 1..(Cardinality(DOMAIN h) + 1) : q \notin DOMAIN h => r <= q

\* the objects of h that the registry d or the reference set keep refers to
Live(h, d, keep) ==
    [ r \in (DOMAIN h) \cap ({ d[i][2] : i \in DOMAIN d } \cup keep) |-> h[r] ]

\* get_learner with the cache test `if learner_id in self.learners`: the
\* cached learner is returned also when use_cache is False
get_learner_cache_always(h, learner_id, use_cache) ==
    IF HasKey(learners, learner_id)
    THEN [ exc |-> "none", ref |-> Get(learners, learner_id), heap |-> h ]
    ELSE IF \E r \in DOMAIN learner_id : learner_id[r] >= Len(col_explore)
    THEN [ exc |-> ListIndexError, ref |-> 0, heap |-> h ]
    ELSE [ exc |-> "none", ref |-> NewRef(h),
           heap |-> h @@ (NewRef(h) :> NewLearner(LearnerParamSpecs(learner_id))) ]

\* get_learner without the cache test: a new learner is made for every
\* call, also for a learner id of the registry
get_learner_cache_never(h, learner_id, use_cache) ==
    IF \E r \in DOMAIN learner_id : learner_id[r] >= Len(col_explore)
    THEN [ exc |-> ListIndexError, ref |-> 0, heap |-> h ]
    ELSE [ exc |-> "none", ref |-> NewRef(h),
           heap |-> h @@ (NewRef(h) :> NewLearner(LearnerParamSpecs(learner_id))) ]

\* get_learner(learner_id, use_cache) on heap h: the exception raised, the
\* reference returned and the heap afterwards. col_explore[i] raises
\* IndexError for an index past the end of col_explore.
get_learner(h, learner_id, use_cache) ==
    IF HasKey(learners, learner_id) /\ use_cache
    THEN [ exc |-> "none", ref |-> Get(learners, learner_id), heap |-> h ]
    ELSE IF \E r \in DOMAIN learner_id : learner_id[r] >= Len(col_explore)
    THEN [ exc |-> ListIndexError, ref |-> 0, heap |-> h ]
    ELSE [ exc |-> "none", ref |-> NewRef(h),
           heap |-> h @@ (NewRef(h) :> NewLearner(LearnerParamSpecs(learner_id))) ]

\* ------------------------------------------------------------------------
\* Rover._learner_coefs_to_global_coefs
\* ------------------------------------------------------------------------

\* offset = self.num_covariates - len(self.col_explore)
Offset == num_covariates - Len(col_explore)

\* The row of the global coefficients, or the exception raised.
\* np.array(learner_id) of the empty tuple is an empty float64 array, and
\* numpy refuses a float array as an index (IndexError), also an empty one;
\* an index past the end of the row is an IndexError too. Among equal
\* indices the last assignment stays.
LearnerCoefsToGlobalCoefs(learner_id, opt_coefs) ==
    LET offset == Offset
        explore_indices == [ r \in DOMAIN learner_id |-> learner_id[r] + offset ]
        RankOf(j) == CHOOSE r \in DOMAIN learner_id :
                        /\ explore_indices[r] = j
                        /\ \A q \in DOMAIN learner_id :
                              explore_indices[q] = j => q <= r
    IN  IF learner_id = <<>>
        THEN [ exc |-> ArrayIndexError, row |-> <<>> ]
        ELSE IF \E r \in DOMAIN learner_id : explore_indices[r] >= num_covariates
        THEN [ exc |-> BoundsIndexError, row |-> <<>> ]
        ELSE [ exc |-> "none",
               row |-> [ p \in 1..num_covariates |->
                           IF p <= offset THEN opt_coefs[p]
                           ELSE IF \E r \in DOMAIN learner_id :
                                      explore_indices[r] = p - 1
                           THEN opt_coefs[offset + RankOf(p - 1)]
                           ELSE 0 ] ]

\* ------------------------------------------------------------------------
\* Strategies (strategies/), by their contract
\* ------------------------------------------------------------------------

\* the learner ids a strategy over num_covs covariates may name: the
\* subsets of the covariates, each with its indices in ascending order
StrategyIds(num_covs) ==
    { id \in Arrangements(0..(num_covs - 1)) :
        \A r \in 1..(Len(id) - 1) : id[r] < id[r + 1] }

\* the layers a strategy may return
StrategyLayers(num_covs) ==
    { L \in SUBSET StrategyIds(num_covs) : Cardinality(L) <= MaxLayerSize }

NoStrategy == [ num_covs |-> 0, base_learner_id |-> <<>> ]

\* ------------------------------------------------------------------------
\* Rover.__init__
\* ------------------------------------------------------------------------

NoEnsemble ==
    [ learner_ids |-> <<>>, coefficients |-> <<>>, performances |-> <<>>,
      weights |-> <<>>, means |-> <<>> ]

Init ==
    /\ col_fixed \in FixedChoices
    /\ col_explore \in ExploreChoices
    /\ explore_param \in ExploreParams
    /\ heap = <<>>
    /\ learners = <<>>
    /\ super_learner = None
    /\ pc = "idle"
    /\ strategy = NoStrategy
    /\ curr_ids = {}
    /\ curr_learners = <<>>
    /\ layerNo = 0
    /\ fits = <<>>
    /\ ensemble = NoEnsemble
    /\ err = "none"
    /\ lastOp = "init"
    /\ fitCalls = 0
    /\ fitCompleted = FALSE
    /\ row_call = None
    /\ learner_call = None

config == <<col_fixed, col_explore, explore_param>>

\* the locals of fit and _explore
locals == <<strategy, curr_ids, curr_learners, layerNo, fits>>

\* fit ends, by returning or by raising: its locals are gone
FrameDropped ==
    /\ strategy' = NoStrategy
    /\ curr_ids' = {}
    /\ curr_learners' = <<>>
    /\ layerNo' = 0
    /\ fits' = <<>>

\* ------------------------------------------------------------------------
\* Rover.fit and Rover._explore
\* ------------------------------------------------------------------------

\* Fit with `self.learners = {}` at its start: every fit call starts from an
\* empty registry
Fit_ResetsRegistry(by_name) ==
    /\ pc = "idle"
    /\ fitCalls < MaxFitCalls
    /\ LET num_covs == IF by_name THEN num_covariates ELSE Len(col_explore)
       IN  \E base \in StrategyIds(num_covs) :
             /\ strategy' = [ num_covs |-> num_covs, base_learner_id |-> base ]
             /\ curr_ids' = { base }
    /\ pc' = "while"
    /\ curr_learners' = <<>>
    /\ layerNo' = 1
    /\ fits' = <<>>
    /\ err' = "none"
    /\ lastOp' = "fit"
    /\ fitCalls' = fitCalls + 1
    /\ ensemble' = NoEnsemble
    /\ learners' = <<>>
    /\ heap' = Live(heap, <<>>, super_learner)
    /\ UNCHANGED <<config, super_learner, fitCompleted, row_call, learner_call>>

\* fit is called: _explore makes the strategy (a strategy given by name is
\* made over self.num_covariates; a strategy instance is one over the explore
\* pool) and starts from its base learner id
Fit(by_name) ==
    /\ pc = "idle"
    /\ fitCalls < MaxFitCalls
    /\ LET num_covs == IF by_name THEN num_covariates ELSE Len(col_explore)
       IN  \E base \in StrategyIds(num_covs) :
             /\ strategy' = [ num_covs |-> num_covs, base_learner_id |-> base ]
             /\ curr_ids' = { base }
    /\ pc' = "while"
    /\ curr_learners' = <<>>
    /\ layerNo' = 1
    /\ fits' = <<>>
    /\ err' = "none"
    /\ lastOp' = "fit"
    /\ fitCalls' = fitCalls + 1
    /\ ensemble' = NoEnsemble
    /\ UNCHANGED <<config, heap, learners, super_learner, fitCompleted,
                   row_call, learner_call>>

\* the for loop over curr_ids in the given order: get_learner for every id,
\* and the learners that have not been fit are collected
RECURSIVE CollectLearners(_, _, _)
CollectLearners(order, h, collected) ==
    IF order = <<>>
    THEN [ exc |-> "none", heap |-> h, curr_learners |-> collected ]
    ELSE LET learner_id == Head(order)
             got == get_learner(h, learner_id, TRUE)
         IN  IF got.exc # "none"
             THEN [ exc |-> got.exc, heap |-> h, curr_learners |-> collected ]
             ELSE CollectLearners(
                    Tail(order), got.heap,
                    IF ~ got.heap[got.ref].has_been_fit
                    THEN Append(collected, <<learner_id, got.ref>>)
                    ELSE collected)

\* the registry with the collected learners stored in it
RECURSIVE StoreAll(_, _)
StoreAll(d, collected) ==
    IF collected = <<>> THEN d
    ELSE StoreAll(DictSet(d, Head(collected)[1], Head(collected)[2]),
                  Tail(collected))

\* ExploreLayer with a get_learner that stores a new learner in self.learners
\* before it returns it
ExploreLayer_Inserting ==
    /\ pc = "while"
    /\ curr_ids # {}
    /\ \E order \in Orders(curr_ids) :
         LET got == CollectLearners(order, heap, <<>>)
         IN  /\ got.exc = "none"
             /\ heap' = got.heap
             /\ curr_learners' = got.curr_learners
             /\ learners' = StoreAll(learners, got.curr_learners)
    /\ pc' = "fit_layer"
    /\ UNCHANGED <<config, super_learner, strategy, curr_ids, layerNo,
                   fits, ensemble, err, lastOp, fitCalls, fitCompleted,
                   row_call, learner_call>>

\* `while curr_ids` with a layer to process: the learners of the layer are
\* looked up and _fit_layer starts on those not fit
ExploreLayer ==
    /\ pc = "while"
    /\ curr_ids # {}
    /\ \E order \in Orders(curr_ids) :
         LET got == CollectLearners(order, heap, <<>>)
         IN  /\ got.exc = "none"
             /\ heap' = got.heap
             /\ curr_learners' = got.curr_learners
    /\ pc' = "fit_layer"
    /\ UNCHANGED <<config, learners, super_learner, strategy, curr_ids, layerNo,
                   fits, ensemble, err, lastOp, fitCalls, fitCompleted,
                   row_call, learner_call>>

\* get_learner raises for an id of the layer: fit raises
ExploreLayerRaises ==
    /\ pc = "while"
    /\ curr_ids # {}
    /\ \E order \in Orders(curr_ids) :
         LET got == CollectLearners(order, heap, <<>>)
         IN  /\ got.exc # "none"
             /\ err' = got.exc
    /\ pc' = "idle"
    /\ heap' = Live(heap, learners, super_learner)
    /\ FrameDropped
    /\ UNCHANGED <<config, learners, super_learner, ensemble, lastOp, fitCalls,
                   fitCompleted, row_call, learner_call>>

\* FitLearner without `self.learners[learner_id] = learner`
FitLearner_NotStored ==
    /\ pc = "fit_layer"
    /\ curr_learners # <<>>
    /\ LET learner_id == Head(curr_learners)[1]
           ref == Head(curr_learners)[2]
       IN  \E outcome \in FitOutcomes :
             /\ heap' = [ heap EXCEPT
                            ![ref] = LearnerFit(heap[ref], outcome[1], outcome[2]) ]
             /\ fits' = Append(fits, [ id |-> learner_id, layer |-> layerNo,
                                       ok |-> TRUE ])
    /\ curr_learners' = Tail(curr_learners)
    /\ UNCHANGED <<config, learners, super_learner, pc, strategy, curr_ids,
                   layerNo, ensemble, err, lastOp, fitCalls, fitCompleted,
                   row_call, learner_call>>

\* the body of _fit_layer's loop with results that every learner of the
\* registry shares: the performance of the fit is written to all of them
StoreFit_Shared(h, d, item, outcome) ==
    [ heap |-> [ r \in DOMAIN h |->
                   IF r = item[2]
                   THEN LearnerFit(h[r], outcome[1], outcome[2])
                   ELSE IF \E i \in DOMAIN d : d[i][2] = r
                   THEN [ h[r] EXCEPT !.performance = Some(outcome[1]) ]
                   ELSE h[r] ],
      learners |-> DictSet(d, item[1], item[2]) ]

\* the body of _fit_layer's loop for the item (learner_id, learner) on heap
\* h and registry d: learner.fit returns with the outcome, and the learner
\* is stored under its id
StoreFit(h, d, item, outcome) ==
    [ heap |-> [ h EXCEPT
                   ![item[2]] = LearnerFit(h[item[2]], outcome[1], outcome[2]) ],
      learners |-> DictSet(d, item[1], item[2]) ]

\* _fit_layer over the items in the given order, the fit of learner id
\* giving outcomes[id]
RECURSIVE FitLayer(_, _, _, _)
FitLayer(items, outcomes, h, d) ==
    IF items = <<>>
    THEN [ heap |-> h, learners |-> d ]
    ELSE LET done == StoreFit(h, d, Head(items), outcomes[Head(items)[1]])
         IN  FitLayer(Tail(items), outcomes, done.heap, done.learners)

\* _fit_layer, one learner: learner.fit returns and the learner is stored
FitLearner ==
    /\ pc = "fit_layer"
    /\ curr_learners # <<>>
    /\ LET learner_id == Head(curr_learners)[1]
       IN  \E outcome \in FitOutcomes :
             LET done == StoreFit(heap, learners, Head(curr_learners), outcome)
             IN  /\ heap' = done.heap
                 /\ learners' = done.learners
                 /\ fits' = Append(fits, [ id |-> learner_id, layer |-> layerNo,
                                           ok |-> TRUE ])
    /\ curr_learners' = Tail(curr_learners)
    /\ UNCHANGED <<config, super_learner, pc, strategy, curr_ids, layerNo,
                   ensemble, err, lastOp, fitCalls, fitCompleted, row_call,
                   learner_call>>

\* FitLearnerRaises of a _fit_layer that stores the learner before it calls
\* learner.fit: the learner whose fit raises is in the registry
FitLearnerRaises_Stored ==
    /\ pc = "fit_layer"
    /\ curr_learners # <<>>
    /\ pc' = "idle"
    /\ err' = "FitError"
    /\ learners' = DictSet(learners, Head(curr_learners)[1],
                           Head(curr_learners)[2])
    /\ heap' = Live(heap, learners', super_learner)
    /\ FrameDropped
    /\ UNCHANGED <<config, super_learner, ensemble, lastOp, fitCalls,
                   fitCompleted, row_call, learner_call>>

\* _fit_layer, one learner: learner.fit raises, nothing catches it, and fit
\* raises
FitLearnerRaises ==
    /\ pc = "fit_layer"
    /\ curr_learners # <<>>
    /\ pc' = "idle"
    /\ err' = "FitError"
    /\ heap' = Live(heap, learners, super_learner)
    /\ FrameDropped
    /\ UNCHANGED <<config, learners, super_learner, ensemble, lastOp, fitCalls,
                   fitCompleted, row_call, learner_call>>

\* GetNextLayer that does not wait for _fit_layer: the strategy is asked
\* while learners of the layer are still to fit
GetNextLayer_Early ==
    /\ pc = "fit_layer"
    /\ curr_ids' \in IF layerNo < MaxLayers
                     THEN StrategyLayers(strategy.num_covs)
                     ELSE { {} }
    /\ layerNo' = IF curr_ids' = {} THEN layerNo ELSE layerNo + 1
    /\ pc' = "while"
    /\ UNCHANGED <<config, heap, learners, super_learner, strategy,
                   curr_learners, fits, ensemble, err, lastOp, fitCalls,
                   fitCompleted, row_call, learner_call>>

\* the layer is fit: strategy.get_next_layer gives the next curr_ids
GetNextLayer ==
    /\ pc = "fit_layer"
    /\ curr_learners = <<>>
    /\ curr_ids' \in IF layerNo < MaxLayers
                     THEN StrategyLayers(strategy.num_covs)
                     ELSE { {} }
    /\ layerNo' = IF curr_ids' = {} THEN layerNo ELSE layerNo + 1
    /\ pc' = "while"
    /\ UNCHANGED <<config, heap, learners, super_learner, strategy,
                   curr_learners, fits, ensemble, err, lastOp, fitCalls,
                   fitCompleted, row_call, learner_call>>

\* ExploreReturns of a loop that does not test curr_ids: the empty layer is
\* processed as a layer
ExploreReturns_Continues ==
    /\ pc = "while"
    /\ curr_ids = {}
    /\ pc' = "fit_layer"
    /\ UNCHANGED <<config, heap, learners, super_learner, locals, ensemble, err,
                   lastOp, fitCalls, fitCompleted, row_call, learner_call>>

\* `while curr_ids` with the empty layer: _explore returns
ExploreReturns ==
    /\ pc = "while"
    /\ curr_ids = {}
    /\ pc' = "create_super_learner"
    /\ UNCHANGED <<config, heap, learners, super_learner, locals, ensemble, err,
                   lastOp, fitCalls, fitCompleted, row_call, learner_call>>

\* ------------------------------------------------------------------------
\* metrics_to_weights (synthesizer.py), by its contract
\* ------------------------------------------------------------------------

\* the performance of a model relative to the best (lowest), in percent
Ratio(best, metric) == IF metric = 0 THEN 100 ELSE (best * 100) \div metric

\* The weights of the models as whole numbers; the normalised weight of a
\* model is its weight divided by the sum of the weights. A model below the
\* ratio cutoff, or not among the max_num_models best, has weight 0. Without
\* any model no ensemble can be formed.
MetricsToWeights(metrics, max_num_models, ratio_cutoff) ==
    LET best == CHOOSE b \in Range(metrics) : \A m \in Range(metrics) : b <= m
        Rank(i) == Cardinality({ j \in DOMAIN metrics :
                        \/ metrics[j] < metrics[i]
                        \/ metrics[j] = metrics[i] /\ j < i })
    IN  IF metrics = <<>>
        THEN [ exc |-> "EmptyEnsembleError", weights |-> <<>> ]
        ELSE [ exc |-> "none",
               weights |-> [ i \in DOMAIN metrics |->
                   IF /\ Ratio(best, metrics[i]) >= ratio_cutoff
                      /\ Rank(i) < max_num_models
                   THEN Ratio(best, metrics[i])
                   ELSE 0 ] ]

\* ------------------------------------------------------------------------
\* Rover._generate_coefficients_matrix and _generate_ensemble_coefficients
\* ------------------------------------------------------------------------

\* Rover.performances
performances(h, d) == [ i \in DOMAIN d |-> <<d[i][1], h[d[i][2]].performance>> ]

\* the test of _generate_coefficients_matrix on one learner:
\* `learner.performance and learner.opt_coefs is not None`
EntersMatrix(learner) ==
    Truthy(learner.performance) /\ learner.opt_coefs # None

\* the learner ids of the matrix, in the order of self.learners
MatrixLearnerIds ==
    LET Test(item) == EntersMatrix(heap[item[2]])
    IN  Keys(SelectSeq(learners, Test))

\* the rows of the matrix, one per learner id, each the outcome of
\* _learner_coefs_to_global_coefs
MatrixRows(learner_ids) ==
    [ row \in DOMAIN learner_ids |->
        LearnerCoefsToGlobalCoefs(
            learner_ids[row],
            TheValue(heap[Get(learners, learner_ids[row])].opt_coefs)) ]

\* Dot that leaves the weights out: coefficients.sum(axis=0)
Dot_Unweighted(coefficients, weights) ==
    [ p \in 1..num_covariates |->
        SumSeq([ i \in DOMAIN coefficients |-> coefficients[i][p] ]) ]

\* coefficients.T.dot(weights)
Dot(coefficients, weights) ==
    [ p \in 1..num_covariates |->
        SumSeq([ i \in DOMAIN coefficients |-> coefficients[i][p] * weights[i] ]) ]

\* _generate_ensemble_coefficients: the exception raised and the locals
GenerateEnsembleCoefficients(max_num_models, ratio_cutoff) ==
    IF ratio_cutoff > 100 \/ max_num_models < 1
    THEN [ exc |-> "InvalidConfigurationError", ens |-> ensemble ]
    ELSE
    LET learner_ids == MatrixLearnerIds
        rows == MatrixRows(learner_ids)
    IN  IF \E i \in DOMAIN rows : rows[i].exc # "none"
        THEN [ exc |-> rows[CHOOSE i \in DOMAIN rows : rows[i].exc # "none"].exc,
               ens |-> ensemble ]
        ELSE
        LET coefficients == [ i \in DOMAIN rows |-> rows[i].row ]
            perfs == [ i \in DOMAIN learner_ids |->
                         TheValue(Get(performances(heap, learners), learner_ids[i])) ]
            w == MetricsToWeights(perfs, max_num_models, ratio_cutoff)
        IN  [ exc |-> w.exc,
              ens |-> [ learner_ids |-> learner_ids,
                        coefficients |-> coefficients,
                        performances |-> perfs,
                        weights |-> w.weights,
                        means |-> IF w.exc = "none"
                                  THEN Dot(coefficients, w.weights)
                                  ELSE <<>> ] ]

\* ------------------------------------------------------------------------
\* Rover._create_super_learner and the end of Rover.fit
\* ------------------------------------------------------------------------

\* master_learner_id = tuple(range(self.num_covariates))
master_learner_id == [ r \in 1..num_covariates |-> r - 1 ]

\* _create_super_learner for given parameters: the exception raised, the
\* locals of the ensembling, the new learner and the heap afterwards
CreateSuperLearnerOutcome(max_num_models, ratio_cutoff) ==
    LET gen == GenerateEnsembleCoefficients(max_num_models, ratio_cutoff)
        got == get_learner(heap, master_learner_id, FALSE)
    IN  IF gen.exc # "none"
        THEN [ exc |-> gen.exc, ens |-> gen.ens, ref |-> 0, heap |-> heap ]
        ELSE IF got.exc # "none"
        THEN [ exc |-> got.exc, ens |-> gen.ens, ref |-> 0, heap |-> heap ]
        ELSE [ exc |-> "none", ens |-> gen.ens, ref |-> got.ref,
               heap |-> [ got.heap EXCEPT
                            ![got.ref] = [ @ EXCEPT
                                !.opt_coefs = Some(gen.ens.means) ] ] ]

\* _create_super_learner returns and fit stores the super learner. The
\* parameters max_num_models and ratio_cutoff of fit are read here for the
\* first time, so they are drawn here.
CreateSuperLearner ==
    /\ pc = "create_super_learner"
    /\ \E args \in EnsembleArgs :
         LET out == CreateSuperLearnerOutcome(args[1], args[2])
         IN  /\ out.exc = "none"
             /\ heap' = Live(out.heap, learners, Some(out.ref))
             /\ ensemble' = out.ens
             /\ super_learner' = Some(out.ref)
    /\ pc' = "idle"
    /\ err' = "none"
    /\ fitCompleted' = TRUE
    /\ FrameDropped
    /\ UNCHANGED <<config, learners, lastOp, fitCalls, row_call, learner_call>>

\* CreateSuperLearnerRaises of a fit that sets self.super_learner to None
\* before it makes the new super learner
CreateSuperLearnerRaises_Clearing ==
    /\ pc = "create_super_learner"
    /\ \E args \in EnsembleArgs :
         LET out == CreateSuperLearnerOutcome(args[1], args[2])
         IN  /\ out.exc # "none"
             /\ ensemble' = out.ens
             /\ err' = out.exc
    /\ pc' = "idle"
    /\ super_learner' = None
    /\ heap' = Live(heap, learners, None)
    /\ FrameDropped
    /\ UNCHANGED <<config, learners, lastOp, fitCalls, fitCompleted, row_call,
                   learner_call>>

\* _create_super_learner raises: fit raises before self.super_learner is set
CreateSuperLearnerRaises ==
    /\ pc = "create_super_learner"
    /\ \E args \in EnsembleArgs :
         LET out == CreateSuperLearnerOutcome(args[1], args[2])
         IN  /\ out.exc # "none"
             /\ ensemble' = out.ens
             /\ err' = out.exc
    /\ pc' = "idle"
    /\ FrameDropped
    /\ UNCHANGED <<config, heap, learners, super_learner, lastOp, fitCalls,
                   fitCompleted, row_call, learner_call>>

\* ------------------------------------------------------------------------
\* Rover.predict
\* ------------------------------------------------------------------------

\* check_is_fitted with the test inverted: `if self.super_learner`
check_is_fitted_inverted == super_learner # None

\* check_is_fitted raises: `not self.super_learner`
check_is_fitted == super_learner = None

\* predict: NotFittedError, or the prediction of the super learner
Predict ==
    /\ pc = "idle"
    /\ err' = IF check_is_fitted THEN "NotFittedError" ELSE "none"
    /\ lastOp' = "predict"
    /\ UNCHANGED <<config, heap, learners, super_learner, pc, locals,
                   ensemble, fitCalls, fitCompleted, row_call, learner_call>>

\* ------------------------------------------------------------------------
\* The specification of a Rover in use
\* ------------------------------------------------------------------------

Next ==
    \/ \E by_name \in BOOLEAN : Fit(by_name)
    \/ ExploreLayer
    \/ ExploreLayerRaises
    \/ FitLearner
    \/ FitLearnerRaises
    \/ GetNextLayer
    \/ ExploreReturns
    \/ CreateSuperLearner
    \/ CreateSuperLearnerRaises
    \/ Predict

Spec == Init /\ [][Next]_vars

\* A call runs on: the statements of _explore are executed one after the
\* other, Learner.fit returns or raises, and the strategy answers.
FairSpec ==
    /\ Spec
    /\ WF_vars(ExploreLayer)
    /\ WF_vars(ExploreLayerRaises)
    /\ WF_vars(FitLearner \/ FitLearnerRaises)
    /\ WF_vars(GetNextLayer)
    /\ WF_vars(ExploreReturns)

\* ------------------------------------------------------------------------
\* _learner_coefs_to_global_coefs called on its own
\* ------------------------------------------------------------------------

\* the values of col_explore tried for the projection
ProjectExploreChoices ==
    { <<>>, <<"x1">>, <<"x1", "x2">>, <<"x1", "x2", "x3">> }

\* the values a coefficient takes
CoefVals == {1, 2}

InitProject ==
    /\ col_fixed \in FixedChoices
    /\ col_explore \in ProjectExploreChoices
    /\ explore_param \in ExploreParams
    /\ heap = <<>>
    /\ learners = <<>>
    /\ super_learner = None
    /\ pc = "idle"
    /\ strategy = NoStrategy
    /\ curr_ids = {}
    /\ curr_learners = <<>>
    /\ layerNo = 0
    /\ fits = <<>>
    /\ ensemble = NoEnsemble
    /\ err = "none"
    /\ lastOp = "init"
    /\ fitCalls = 0
    /\ fitCompleted = FALSE
    /\ row_call = None
    /\ learner_call = None

\* a call with a learner id over the explore pool, in any order, and one
\* coefficient for every fixed column and every column of the learner id
ProjectCall ==
    /\ pc = "idle"
    /\ \E learner_id \in Arrangements(0..(Len(col_explore) - 1)) :
         \E opt_coefs \in [ 1..(Offset + Len(learner_id)) -> CoefVals ] :
           row_call' = Some([ learner_id |-> learner_id,
                              opt_coefs |-> opt_coefs,
                              out |-> LearnerCoefsToGlobalCoefs(learner_id,
                                                                opt_coefs) ])
    /\ UNCHANGED <<config, heap, learners, super_learner, pc, locals, ensemble,
                   err, lastOp, fitCalls, fitCompleted, learner_call>>

SpecProject == InitProject /\ [][ProjectCall]_vars

\* ------------------------------------------------------------------------
\* get_learner called on its own
\* ------------------------------------------------------------------------

\* the values of col_fixed tried for get_learner: no parameter, one
\* parameter, two parameters, and a parameter without fixed columns
GroupChoices ==
    { <<>>,
      << <<"mu", <<"f1">> >> >>,
      << <<"mu", <<"f1">> >>, <<"sigma", <<"g1">> >> >>,
      << <<"mu", <<>> >>, <<"sigma", <<"g1", "g2">> >> >> }

\* the values of explore_param tried: a parameter of col_fixed or another
GroupParams == {"mu", "sigma", "nu"}

InitLearner ==
    /\ col_fixed \in GroupChoices
    /\ col_explore \in ProjectExploreChoices
    /\ explore_param \in GroupParams
    /\ heap = <<>>
    /\ learners = <<>>
    /\ super_learner = None
    /\ pc = "idle"
    /\ strategy = NoStrategy
    /\ curr_ids = {}
    /\ curr_learners = <<>>
    /\ layerNo = 0
    /\ fits = <<>>
    /\ ensemble = NoEnsemble
    /\ err = "none"
    /\ lastOp = "init"
    /\ fitCalls = 0
    /\ fitCompleted = FALSE
    /\ row_call = None
    /\ learner_call = None

\* a call of get_learner with a learner id over the explore pool, in any
\* order: the learner is returned to the caller
GetLearnerCall ==
    /\ pc = "idle"
    /\ \E learner_id \in Arrangements(0..(Len(col_explore) - 1)) :
         LET got == get_learner(heap, learner_id, TRUE)
         IN  /\ got.exc = "none"
             /\ learner_call' = Some([ learner_id |-> learner_id,
                                       learner |-> got.heap[got.ref] ])
    /\ UNCHANGED <<config, heap, learners, super_learner, pc, locals, ensemble,
                   err, lastOp, fitCalls, fitCompleted, row_call>>

SpecLearner == InitLearner /\ [][GetLearnerCall]_vars

\* ------------------------------------------------------------------------
\* The claims
\* ------------------------------------------------------------------------

Exploring == pc \in {"while", "fit_layer"}

RegistryRefs == { learners[i][2] : i \in DOMAIN learners }

\* C1: in a run of the exploration loop Learner.fit is called at most once
\* for every learner id, however many layers name the id.
C1_FitAtMostOnce ==
    \A i, j \in DOMAIN fits : fits[i].id = fits[j].id => i = j

\* C1, its case: the second layer names an id that was fit in the first
\* layer, and the id is not among the learners to fit
C1_Witness ==
    /\ pc = "fit_layer"
    /\ layerNo = 2
    /\ \E id \in curr_ids :
         /\ \E i \in DOMAIN fits : fits[i].id = id /\ fits[i].layer = 1
         /\ \A k \in DOMAIN curr_learners : curr_learners[k][1] # id

\* C2 as stated: for every learner id over the explore pool and every vector
\* of fixed_count + len(id) coefficients the projection returns a row of
\* length num_covariates with the fixed coefficients first, the coefficient
\* of rank r at fixed_count + id[r], and 0 elsewhere.
C2_ProjectionAsStated ==
    \A call \in row_call :
        /\ call.out.exc = "none"
        /\ Len(call.out.row) = num_covariates
        /\ \A p \in 1..Offset : call.out.row[p] = call.opt_coefs[p]
        /\ \A r \in DOMAIN call.learner_id :
             call.out.row[Offset + call.learner_id[r] + 1]
                = call.opt_coefs[Offset + r]
        /\ \A k \in 0..(Len(col_explore) - 1) :
             k \notin Range(call.learner_id) => call.out.row[Offset + k + 1] = 0

\* C3 as stated: when Learner.fit raises for a learner of a layer, the run
\* goes on with the learners of the layer that are left.
C3_FitFailureIsolatedAsStated ==
    [][ (pc = "fit_layer" /\ curr_learners # <<>> /\ err' = "FitError")
          => (pc' = "fit_layer" /\ curr_learners' = Tail(curr_learners)) ]_vars

\* C4 as stated: fit raises the configuration error before any Learner.fit
\* call of this fit, and with the registry as it was when fit was called
\* (empty, in the first fit).
C4_ConfigErrorBeforeFitsAsStated ==
    [][ (pc = "create_super_learner" /\ err' = "InvalidConfigurationError")
          => (fits = <<>> /\ (fitCalls = 1 => learners = <<>>)) ]_vars

\* C5: predict raises NotFittedError exactly when no fit call has returned
\* before it without raising.
C5_PredictNotFitted ==
    lastOp = "predict" => ((err = "NotFittedError") <=> ~ fitCompleted)

\* C5, its case: predict after a fit call that raised
C5_Witness ==
    /\ lastOp = "predict"
    /\ fitCalls > 0
    /\ ~ fitCompleted
    /\ err = "NotFittedError"

\* C6: the exploration loop ends, for an explore pool of any size; it is left
\* without an exception only at an empty layer, it is left at the first empty
\* layer, and nothing is fit or stored after that.
C6_ExplorationTerminates ==
    /\ Exploring ~> ~ Exploring
    /\ [][ (pc = "while" /\ curr_ids = {})
             => (pc' = "create_super_learner" /\ UNCHANGED <<learners, fits>>) ]_vars
    /\ [][ (Exploring /\ pc' = "create_super_learner") => curr_ids = {} ]_vars
    /\ [][ pc = "create_super_learner"
             => (pc' = "idle" /\ learners' = learners) ]_vars

\* C6, its case: the loop has ended for an empty explore pool, after a fit
C6_Witness ==
    /\ pc = "create_super_learner"
    /\ col_explore = <<>>
    /\ fits # <<>>

\* C7 as stated: a learner that get_learner has made for an id that was not
\* in the registry is in the registry when get_learner returns it.
C7_InsertedOnLookupAsStated ==
    pc = "fit_layer" =>
        \A k \in DOMAIN curr_learners :
            /\ HasKey(learners, curr_learners[k][1])
            /\ Get(learners, curr_learners[k][1]) = curr_learners[k][2]

\* C7 as amended: get_learner makes a new learner, not fit, for an id that is
\* not in the registry and returns it without storing it; the learner is
\* stored under its id when its fit returns, and from then on get_learner
\* returns that instance for the id.
C7_InsertedWhenFit ==
    /\ [](pc = "fit_layer" =>
            \A k \in DOMAIN curr_learners :
                /\ ~ HasKey(learners, curr_learners[k][1])
                /\ curr_learners[k][2] \notin RegistryRefs
                /\ ~ heap[curr_learners[k][2]].has_been_fit)
    /\ [][ (pc = "fit_layer" /\ learners' # learners)
             => /\ learners' = Append(learners, Head(curr_learners))
                /\ heap'[Head(curr_learners)[2]].has_been_fit
                /\ Get(learners', Head(curr_learners)[1])
                      = Head(curr_learners)[2] ]_vars
    /\ [][ \A i \in DOMAIN learners :
              i \in DOMAIN learners' /\ learners'[i] = learners[i] ]_vars

\* C7, its case: of two learners that get_learner returned one has been fit
\* and stored, and the other is still to fit
C7_Witness ==
    /\ pc = "fit_layer"
    /\ curr_learners # <<>>
    /\ \E i \in DOMAIN fits : fits[i].layer = layerNo

\* C8: making the super learner leaves the registry as it is: the same keys
\* with the same objects, none of them changed, and the super learner is
\* none of them.
C8_SuperLearnerKeepsRegistry ==
    [][ (pc = "create_super_learner" /\ err' = "none")
          => /\ learners' = learners
             /\ \A ref \in RegistryRefs : heap'[ref] = heap[ref]
             /\ \A ref \in super_learner' : ref \notin RegistryRefs ]_vars

\* C8, its case: a super learner has been made while the full learner id is
\* a key of the registry
C8_Witness ==
    /\ pc = "idle"
    /\ err = "none"
    /\ super_learner # None
    /\ HasKey(learners, master_learner_id)
    /\ heap[TheValue(super_learner)].opt_coefs
          # heap[Get(learners, master_learner_id)].opt_coefs

\* C9 as stated: once the ensemble coefficients are there, fit makes the
\* super learner on the learner id of all explore columns, for every
\* covariate space, and stores it.
C9_SuperLearnerOnFullIdAsStated ==
    [][ (/\ pc = "create_super_learner"
         /\ err' \notin {"InvalidConfigurationError", "EmptyEnsembleError",
                         ArrayIndexError, BoundsIndexError})
          => /\ err' = "none"
             /\ super_learner' # None
             /\ Variables(heap'[TheValue(super_learner')]) = all_covariates ]_vars

\* C10 as stated: the learner ids of the coefficient matrix are the keys of
\* the registry with a performance and coefficients that are not None, a
\* performance of 0 included, in the order of the registry, and the
\* performances given to metrics_to_weights are theirs, row by row.
C10_MatrixOfNonNullAsStated ==
    [][ (/\ pc = "create_super_learner"
         /\ err' \notin {"InvalidConfigurationError", ArrayIndexError,
                         BoundsIndexError})
          => LET NonNull(item) == /\ heap[item[2]].performance # None
                                  /\ heap[item[2]].opt_coefs # None
                 ids == Keys(SelectSeq(learners, NonNull))
             IN  /\ ensemble'.learner_ids = ids
                 /\ Len(ensemble'.coefficients) = Len(ids)
                 /\ ensemble'.performances
                      = [ i \in DOMAIN ids |->
                            TheValue(heap[Get(learners, ids[i])].performance) ] ]_vars

\* C11: the registry only grows. Every step of every operation keeps every
\* key of the registry, bound to the object it was bound to, at its place in
\* the order of the registry; a key is never removed and never bound again.
C11_RegistryOnlyGrows ==
    [][ /\ Len(learners') >= Len(learners)
        /\ \A id \in Range(Keys(learners)) :
              /\ HasKey(learners', id)
              /\ Get(learners', id) = Get(learners, id)
        /\ SubSeq(Keys(learners'), 1, Len(learners)) = Keys(learners) ]_vars

\* C11, its case: a second fit call has added a key to the registry that an
\* earlier call left, and has named a key of the earlier call in a layer
C11_Witness ==
    /\ fitCalls = 2
    /\ pc = "fit_layer"
    /\ fits # <<>>
    /\ Len(learners) > Len(fits)
    /\ \E id \in curr_ids :
          /\ HasKey(learners, id)
          /\ \A i \in DOMAIN fits : fits[i].id # id

\* C12: when _explore calls strategy.get_next_layer, every learner id of
\* the current layer is a key of the registry given to it and its learner
\* has been fit; and a Learner.fit call is made only for an id of the
\* current layer that is not a key of the registry, before the strategy is
\* called for that layer, so none is made for the layer after the call.
C12_LayerFitBeforeStrategy ==
    /\ [][ (pc = "fit_layer" /\ pc' = "while")
             => /\ curr_learners = <<>>
                /\ learners' = learners
                /\ \A id \in curr_ids :
                      /\ HasKey(learners, id)
                      /\ heap[Get(learners, id)].has_been_fit
                      /\ heap'[Get(learners, id)] = heap[Get(learners, id)] ]_vars
    /\ [][ (fits' # fits /\ fits' # <<>>)
             => /\ pc = "fit_layer" /\ pc' = "fit_layer"
                /\ fits' = Append(fits, fits'[Len(fits')])
                /\ fits'[Len(fits')].id \in curr_ids
                /\ ~ HasKey(learners, fits'[Len(fits')].id)
                /\ curr_ids' = curr_ids ]_vars

\* C12, its case: the strategy has been called for a layer whose learner
\* was fit, and has named a second layer with that learner id and a new one
C12_Witness ==
    /\ pc = "while"
    /\ layerNo = 2
    /\ \E id \in curr_ids : \E i \in DOMAIN fits : fits[i].id = id
    /\ \E id \in curr_ids : ~ HasKey(learners, id)

\* C13 as stated: for every learner id and every covariate space, with any
\* number of parameters in col_fixed and explore_param any parameter, the
\* variables of the param_specs that get_learner builds, parameter after
\* parameter, are the fixed columns in the order they have in
\* all_covariates, followed by the explore columns of the id in the order of
\* the id; for the id of all explore columns they are all_covariates.
C13_FlattenedOrderAsStated ==
    \A call \in learner_call :
        /\ Variables(call.learner)
              = SubSeq(all_covariates, 1, Offset)
                  \o [ r \in DOMAIN call.learner_id |->
                         col_explore[call.learner_id[r] + 1] ]
        /\ call.learner_id = [ r \in 1..Len(col_explore) |-> r - 1 ]
              => Variables(call.learner) = all_covariates

\* what the registry d on heap h maps its learner ids to
RegistryResults(h, d) ==
    { <<d[i][1], h[d[i][2]].performance, h[d[i][2]].opt_coefs>> : i \in DOMAIN d }

\* C14: the fits of the learners of one layer do not depend on their order:
\* whatever the order in which the learners that are left to fit are fit,
\* the registry after the layer maps the same learner ids to the same
\* performance and coefficients; a fit changes only its own learner and adds
\* only its own key.
C14_FitsOrderIndependent ==
    /\ [](pc = "fit_layer" =>
            \A outcomes \in [ Range(Keys(curr_learners)) -> FitOutcomes ] :
              \A items \in Orders(Range(curr_learners)) :
                LET this == FitLayer(curr_learners, outcomes, heap, learners)
                    other == FitLayer(items, outcomes, heap, learners)
                IN  RegistryResults(other.heap, other.learners)
                      = RegistryResults(this.heap, this.learners))
    /\ [][ (pc = "fit_layer" /\ fits' # fits /\ fits' # <<>>)
             => /\ \A ref \in DOMAIN heap \ { Head(curr_learners)[2] } :
                      heap'[ref] = heap[ref]
                /\ RegistryResults(heap', learners')
                      = RegistryResults(heap, learners)
                          \cup { << Head(curr_learners)[1],
                                    heap'[Head(curr_learners)[2]].performance,
                                    heap'[Head(curr_learners)[2]].opt_coefs >> } ]_vars

\* C14, its case: the two learners of a layer have been fit, the learner of
\* the higher column first, with different performances
C14_Witness ==
    /\ pc = "fit_layer"
    /\ curr_learners = <<>>
    /\ \E i, j \in DOMAIN fits :
          /\ i < j
          /\ fits[i].layer = layerNo /\ fits[j].layer = layerNo
          /\ fits[i].id = <<1>> /\ fits[j].id = <<0>>
          /\ heap[Get(learners, <<1>>)].performance
                # heap[Get(learners, <<0>>)].performance

\* C15: the ensemble coefficients have one entry per covariate of
\* all_covariates, and the entry of a covariate is the sum, over the
\* learners of the coefficient matrix, of the weight of the learner times
\* the coefficient that the projection of the learner's coefficients has
\* for the covariate; so an explore column that no learner with a weight
\* other than 0 has gets the coefficient 0.
C15_EnsembleIsWeightedSum ==
    [][ (pc = "create_super_learner" /\ err' \in {"none", ListIndexError})
          => /\ Len(ensemble'.means) = Len(all_covariates)
             /\ Len(ensemble'.weights) = Len(ensemble'.learner_ids)
             /\ \A j \in 1..Len(all_covariates) :
                   ensemble'.means[j]
                     = SumSeq([ i \in DOMAIN ensemble'.learner_ids |->
                         ensemble'.weights[i]
                           * LearnerCoefsToGlobalCoefs(
                               ensemble'.learner_ids[i],
                               TheValue(heap[Get(learners,
                                   ensemble'.learner_ids[i])].opt_coefs)).row[j] ])
             /\ \A k \in 0..(Len(col_explore) - 1) :
                   (\A i \in DOMAIN ensemble'.learner_ids :
                       ensemble'.weights[i] # 0
                         => k \notin Range(ensemble'.learner_ids[i]))
                     => ensemble'.means[Offset + k + 1] = 0 ]_vars

\* C15, its case: of two learners in the matrix one has the weight 0, and
\* the explore column that only this learner has got the coefficient 0
\* while the column of the other learner got another coefficient
C15_Witness ==
    /\ pc = "idle"
    /\ err = "none"
    /\ super_learner # None
    /\ \E i, j \in DOMAIN ensemble.learner_ids :
          /\ ensemble.weights[i] = 0
          /\ ensemble.weights[j] # 0
          /\ \E k \in Range(ensemble.learner_ids[i]) :
                /\ k \notin Range(ensemble.learner_ids[j])
                /\ ensemble.means[Offset + k + 1] = 0
          /\ \E k \in Range(ensemble.learner_ids[j]) :
                ensemble.means[Offset + k + 1] # 0

\* C16 as stated: the strategy that _explore makes for a strategy name is
\* one over the explore columns, so every learner id of a layer is a
\* sequence of distinct indices of col_explore, also when there are fixed
\* columns. (A strategy instance is one over the explore columns.)
C16_StrategyOverExplorePoolAsStated ==
    Exploring =>
        /\ strategy.num_covs = Len(col_explore)
        /\ \A id \in curr_ids :
              /\ \A r \in DOMAIN id : id[r] \in 0..(Len(col_explore) - 1)
              /\ \A r, q \in DOMAIN id : id[r] = id[q] => r = q

\* C17: every learner of the registry is one whose fit was called and has
\* returned: it is marked fit. A key
\* is added only by the step in which the fit of its learner returns; the
\* id of a learner whose fit raises, or that get_learner only returned, is
\* not made a key.
C17_RegistryHoldsFitLearners ==
    /\ [](\A i \in DOMAIN learners :
            /\ learners[i][2] \in DOMAIN heap
            /\ heap[learners[i][2]].has_been_fit)
    /\ [][ Keys(learners') # Keys(learners)
             => /\ pc = "fit_layer" /\ curr_learners # <<>>
                /\ err' = "none"
                /\ fits' = Append(fits, [ id |-> Head(curr_learners)[1],
                                          layer |-> layerNo, ok |-> TRUE ])
                /\ Keys(learners')
                      = Append(Keys(learners), Head(curr_learners)[1]) ]_vars
    /\ [][ (pc = "fit_layer" /\ err' = "FitError")
             => ~ HasKey(learners', Head(curr_learners)[1]) ]_vars

\* C17, its case: a fit call has ended with a Learner.fit that raised,
\* after the fit of another learner had returned in the same layer
C17_Witness ==
    /\ pc = "idle"
    /\ lastOp = "fit"
    /\ err = "FitError"
    /\ fitCalls = 1
    /\ Len(learners) = 2

\* C18: a fit call that raises, in the exploration or in the making of the
\* super learner, leaves self.super_learner as it was when fit was called,
\* the same object unchanged or None, and leaves in the registry every
\* learner fit before it raised, unchanged. self.super_learner changes only
\* in the step in which fit returns without raising.
C18_RaisingFitKeepsSuperLearner ==
    /\ [][ (pc # "idle" /\ err' # "none")
             => /\ pc' = "idle"
                /\ super_learner' = super_learner
                /\ learners' = learners
                /\ \A ref \in RegistryRefs \cup super_learner :
                      ref \in DOMAIN heap' /\ heap'[ref] = heap[ref] ]_vars
    /\ [][ pc # "create_super_learner" \/ err' # "none"
             => /\ super_learner' = super_learner
                /\ \A ref \in super_learner :
                      ref \in DOMAIN heap' /\ heap'[ref] = heap[ref] ]_vars

\* C18, its case: a second fit call has raised in the making of the super
\* learner, after it fit a learner, and the super learner of the first call
\* is still there
C18_Witness ==
    /\ pc = "idle"
    /\ lastOp = "fit"
    /\ fitCalls = 2
    /\ err \in {"InvalidConfigurationError", ArrayIndexError}
    /\ super_learner # None
    /\ Len(learners) >= 2

\* C19: a fit call starts with the registry the earlier calls left, every
\* learner in it unchanged; Learner.fit is called only for a learner id that
\* is not a key of the registry, so no learner fit in an earlier call is
\* fit again; the results of a learner of the registry never change; and
\* the performances and coefficients that go into the ensemble are those
\* the learners of the registry hold, from whichever call.
C19_RegistryKeptAcrossFits ==
    /\ [][ (pc = "idle" /\ pc' # "idle")
             => (learners' = learners /\ heap' = heap) ]_vars
    /\ [][ (fits' # fits /\ fits' # <<>>)
             => \A i \in DOMAIN learners :
                   learners[i][1] # fits'[Len(fits')].id ]_vars
    /\ [][ \A i \in DOMAIN learners :
              /\ heap'[learners[i][2]].performance
                    = heap[learners[i][2]].performance
              /\ heap'[learners[i][2]].opt_coefs
                    = heap[learners[i][2]].opt_coefs ]_vars
    /\ [][ (pc = "create_super_learner" /\ err' \in {"none", ListIndexError})
             => \A i \in DOMAIN ensemble'.learner_ids :
                   LET learner == heap[Get(learners, ensemble'.learner_ids[i])]
                   IN  /\ ensemble'.performances[i] = TheValue(learner.performance)
                       /\ \A p \in 1..Offset :
                             ensemble'.coefficients[i][p]
                               = TheValue(learner.opt_coefs)[p] ]_vars

\* C19, its case: the exploration of a second fit call has ended with one
\* learner fit in it, and the registry holds two learners of the first call
\* that enter the ensemble
C19_Witness ==
    /\ pc = "create_super_learner"
    /\ fitCalls = 2
    /\ Len(fits) = 1
    /\ Len(learners) = 3
    /\ \A i \in DOMAIN learners :
          fits[1].id # learners[i][1] => EntersMatrix(heap[learners[i][2]])

====
